---- MODULE Spec2Model ----
(***************************************************************************)
(* Git Helper (src/src/extension.ts): the push-state marker                *)
(* (PushStateTracker), the four category queries of GitOutgoingProvider    *)
(* and the file-system watcher of activate(), over a model of the git      *)
(* repository the extension shells out to.                                 *)
(*                                                                         *)
(* Every `await execAsync(...)` is one step of the model: the repository   *)
(* may change, and other handlers may run, between two awaits of the same  *)
(* handler, never inside the synchronous code between them.                *)
(***************************************************************************)
EXTENDS Integers, Sequences, FiniteSets, Bags, TLC

\* ------------------------------------------------------------------ bounds
MaxCommits == 2          \* commits the repository may grow to while the extension runs
MaxHistory == 4          \* commits of a repository the extension is started on
MaxTwice == 3            \* commits of a repository on which two calls are compared
MaxShown == 3            \* commits of a repository whose listed files are shown
MaxInFlight == 1         \* updateLastPush calls and `git reflog -1` checks in
                         \* flight at once, next to the constructor's refresh

\* --------------------------------------------------------------- constants
NULL == 0                \* lastPushHash: string | null = null
NoHash == 0              \* an item constructed without the optional hash
Undefined == "undefined" \* an optional string argument left out
Branches == {"main", "dev"}
NoBranch == ""           \* no branch name read yet

VARIABLES
    workspaceRoot,   \* TRUE iff activate() found a workspace folder
    isRepo,          \* the folder holds a git repository
    hasOrigin,       \* a remote named origin is configured
    parents,         \* parents[c]: the parents of commit c, first parent first
    local,           \* local[b]: tip of branch b, NULL when b does not exist
    remote,          \* remote[b]: tip of origin/b, NULL when it does not exist
    head,            \* the checked-out branch
    lastPushHash,    \* PushStateTracker.lastPushHash
    markerBranch,    \* the branch read by the refresh that wrote lastPushHash
                     \* (not a field of the program: kept to state C24)
    upd,             \* the bag of updateLastPushHash calls in flight, each
                     \* with its position, its branch and its caller
    watch,           \* onDidChange handlers awaiting `git reflog -1`
    q,               \* the getChildren(category) call: its position, its locals
                     \* and, once resolved, the list it resolved to
    treeEvents,      \* 1 while a fire() of _onDidChangeTreeData is on its
                     \* way to the view, else 0
    diff             \* the showFileDiff call of the selected tree item: its
                     \* position, its locals and what it has shown

repo == <<isRepo, hasOrigin, parents, local, remote, head>>
vars == <<workspaceRoot, isRepo, hasOrigin, parents, local, remote,
          head, lastPushHash, markerBranch, upd, watch, q, treeEvents, diff>>

\* ------------------------------------------------------------ git: history
Commits == 1..Len(parents)

SeqRange(s) == {s[i] : i \in 1..Len(s)}

\* Commits reachable from c (c included) in history h; parents have smaller ids.
RECURSIVE ReachIn(_, _)
ReachIn(h, c) ==
    IF c = NULL THEN {} ELSE {c} \cup UNION {ReachIn(h, p) : p \in SeqRange(h[c])}

Reach(c) == ReachIn(parents, c)

Max(S) == CHOOSE x \in S : \A y \in S : y <= x

\* A finite set of commits, newest first (ids grow with commit time).
RECURSIVE NewestFirst(_)
NewestFirst(S) == IF S = {} THEN <<>> ELSE <<Max(S)>> \o NewestFirst(S \ {Max(S)})

\* The subject line of a commit, as its space-separated words.
Subject(c) == IF c % 2 = 1 THEN <<"init">> ELSE <<"fix", "bug">>


\* Common ancestors of a and b that are not ancestors of another common one.
BestCommonAncestors(a, b) ==
    LET common == Reach(a) \cap Reach(b)
    IN  {c \in common : \A d \in common \ {c} : c \notin Reach(d)}

\* --------------------------------------------------------- git: revisions
\* A revision as the extension writes it on a command line:
\*   <hash>, <branch>, origin/<branch>, <hash>^, HEAD
Rev(kind, branch, hash) == [kind |-> kind, branch |-> branch, hash |-> hash]
HashRev(h) == Rev("hash", "", h)
BranchRev(b) == Rev("branch", b, NULL)
OriginRev(b) == Rev("origin", b, NULL)
ParentRev(h) == Rev("parent", "", h)
HeadRev == Rev("head", "", NULL)
NoRev == Rev("none", "", NULL)

\* The commit a revision names, NULL when git cannot resolve it.
Resolve(r) ==
    CASE r.kind = "hash" -> IF r.hash \in Commits THEN r.hash ELSE NULL
      [] r.kind = "branch" -> local[r.branch]
      [] r.kind = "origin" -> remote[r.branch]
      [] r.kind = "head" -> local[head]
      [] r.kind = "parent" ->
            IF r.hash \in Commits /\ parents[r.hash] # <<>>
            THEN parents[r.hash][1] ELSE NULL
      [] OTHER -> NULL

\* ---------------------------------------------------------- git: commands
\* What a child process answers: ok = exit code 0, out = its stdout.
\* `up` is FALSE when the process fails for a reason outside the repository
\* (git missing, lock held, buffer exceeded ...).
Answer(ok, out) == [ok |-> ok, out |-> out]

\* stdout is handed over as its lines (stdout.split('\n')), each line as its
\* fields; a line with no field is a blank line. git ends its output with a
\* newline, so the last line of a non-empty output is blank.
Blank == <<>>

\* git rev-parse --abbrev-ref HEAD
GitAbbrevRefHead(up) == Answer(up /\ isRepo, head)

\* git rev-parse --is-inside-work-tree
GitIsInsideWorkTree(up) == Answer(up /\ isRepo, "true")

\* git remote get-url origin
GitRemoteGetUrl(up) == Answer(up /\ isRepo /\ hasOrigin, "url")

\* git merge-base origin/<b> <b>: the answers it may give (one best common
\* ancestor; which one when there are several is git's choice).
GitMergeBase(up, cmd) ==
    LET a == Resolve(cmd.a)
        c == Resolve(cmd.b)
        ok == up /\ isRepo /\ a # NULL /\ c # NULL
    IN  IF ok
        THEN {Answer(TRUE, m) : m \in BestCommonAncestors(a, c)}
        ELSE {Answer(FALSE, NULL)}

\* The commits of the range lo..hi: reachable from hi, not from lo.
RangeCommits(lo, hi) == Reach(Resolve(hi)) \ Reach(Resolve(lo))

\* git log <lo>..<hi> --oneline : one line per commit, newest first, each
\* line given as its space-separated fields: the hash, then the subject.
GitLogOneline(up, lo, hi) ==
    LET ok == up /\ isRepo /\ Resolve(lo) # NULL /\ Resolve(hi) # NULL
        cs == NewestFirst(RangeCommits(lo, hi))
    IN  Answer(ok, IF ok THEN [i \in 1..Len(cs) |-> <<cs[i]>> \o Subject(cs[i])] \o <<Blank>>
                         ELSE <<>>)

\* git log <lo>..<hi> --pretty=format:"%H" : one hash per line, newest first.
GitLogHashes(up, lo, hi) ==
    LET ok == up /\ isRepo /\ Resolve(lo) # NULL /\ Resolve(hi) # NULL
        cs == NewestFirst(RangeCommits(lo, hi))
    IN  Answer(ok, IF ~ok THEN <<>>
                   ELSE IF cs = <<>> THEN <<Blank>>
                   ELSE [i \in 1..Len(cs) |-> <<cs[i]>>])

\* The paths the commits of the model touch.
Paths == {"f", "g"}

\* What the commits of the model change: a merge commit prints nothing,
\* the others go round three outputs (commit 1 adds g, commit 2 adds f,
\* commit 3 modifies f and deletes g, commit 4 adds g again ...); each line
\* is given as its tab-separated fields, and the second output ends with a
\* line that has no tab.
NameStatus(c) ==
    IF Len(parents[c]) > 1 THEN <<>>
    ELSE CASE c % 3 = 1 -> << <<"A", "g">> >>
           [] c % 3 = 2 -> << <<"A", "f">>, <<"junk">> >>
           [] OTHER -> << <<"M", "f">>, <<"D", "g">> >>

\* git show --name-status --pretty=format: <c>
GitShowNameStatus(up, c) ==
    LET ok == up /\ isRepo /\ c \in Commits
    IN  Answer(ok, IF ok THEN NameStatus(c) \o <<Blank>> ELSE <<>>)

\* git diff --name-status <c>^..<c> : what c changes against its first
\* parent; for a merge commit, what its second parent brought.
GitDiffNameStatus(up, c) ==
    LET ok == up /\ isRepo /\ Resolve(ParentRev(c)) # NULL
        changes == IF Len(parents[c]) > 1 THEN NameStatus(parents[c][2]) ELSE NameStatus(c)
    IN  Answer(ok, IF ok THEN changes \o <<Blank>> ELSE <<>>)


\* ------------------------------------------------------- GitOutgoingItem
Label(text, file, hash) == [text |-> text, file |-> file, hash |-> hash]

GitOutgoingItem(label, itemType, file, status, hash) ==
    [label |-> label, itemType |-> itemType, file |-> file, status |-> status,
     hash |-> hash]

\* new GitOutgoingItem(text, None): an entry with no kind.
InfoItem(text) ==
    GitOutgoingItem(Label(text, "", NoHash), Undefined, Undefined, Undefined, NoHash)

getStatusIcon(status) ==
    CASE status = "M" -> "pencil"
      [] status = "A" -> "plus"
      [] status = "D" -> "cross"
      [] status = "R" -> "arrows"
      [] status = "C" -> "clipboard"
      [] status = "U" -> "warning"
      [] status = "T" -> "clipboard"
      [] OTHER -> "unknown"

\* stdout.split('\n').filter(line => line.trim())
NonBlankLines(lines) == SelectSeq(lines, LAMBDA l : Len(l) > 0)

\* const [hash, ...messageParts] = commit.split(' ');
\* new GitOutgoingItem(`${message} (${hash})`, None, 'commit', undefined, undefined, hash)
CommitItem(line) ==
    LET hash == Head(line)
        message == Tail(line)
    IN  GitOutgoingItem(Label(message, "", hash), "commit", Undefined, Undefined, hash)

\* new GitOutgoingItem(`${statusIcon} ${file}`, None, 'file', file, status)
FileItem(status, file) ==
    GitOutgoingItem(Label(<<getStatusIcon(status)>>, file, NoHash), "file", file,
                    status, NoHash)

\* const [status, file] = line.split('\t');
StatusOf(line) == line[1]
FileOf(line) == IF Len(line) >= 2 THEN line[2] ELSE Undefined
Truthy(str) == str # Undefined /\ str # ""


\* A Set<string> as the sequence of its members in insertion order, and a
\* Map<string, string> as the sequence of its <<key, value>> entries.
\* An array in place of the Set: a path is appended each time it is met;
\* C15 tells the two apart.
SetAddAgain(set, file) == Append(set, file)

SetAdd(set, file) == IF file \in SeqRange(set) THEN set ELSE Append(set, file)
MapHas(map, file) == \E i \in 1..Len(map) : map[i][1] = file
MapGet(map, file) ==
    IF MapHas(map, file)
    THEN map[CHOOSE i \in 1..Len(map) : map[i][1] = file][2]
    ELSE Undefined
MapSet(map, file, status) ==
    IF MapHas(map, file)
    THEN [i \in 1..Len(map) |-> IF map[i][1] = file THEN <<file, status>> ELSE map[i]]
    ELSE Append(map, <<file, status>>)

\* A loop that sets the status at every line, so that the commit processed
\* last wins; C6 tells the two apart.
RecordStatusLast(map, file, status) == MapSet(map, file, status)

\* if (!filesStatus.has(file)) { filesStatus.set(file, status); }
RecordStatus(map, file, status) ==
    IF ~MapHas(map, file) THEN MapSet(map, file, status) ELSE map

\* The loop over the lines of one commit in getChangedFiles.
RECURSIVE AddLines(_, _, _)
AddLines(set, map, lines) ==
    IF lines = <<>> THEN [filesSet |-> set, filesStatus |-> map]
    ELSE LET status == StatusOf(Head(lines))
             file == FileOf(Head(lines))
         IN  IF Truthy(file)
             THEN AddLines(SetAdd(set, file), RecordStatus(map, file, status), Tail(lines))
             ELSE AddLines(set, map, Tail(lines))

\* Array.from(filesSet).map(file => ({file, status: filesStatus.get(file) || 'M'}))
\*   .map(({status, file}) => new GitOutgoingItem(...))
ChangedFileItems(set, map) ==
    [i \in 1..Len(set) |->
        FileItem(IF Truthy(MapGet(map, set[i])) THEN MapGet(map, set[i]) ELSE "M", set[i])]

\* getSyncedFiles: lines.map(line => { const [status, file] = line.split('\t'); ... })
SyncedFileItems(lines) ==
    [i \in 1..Len(lines) |-> FileItem(StatusOf(lines[i]), FileOf(lines[i]))]

\* --------------------------------------------------- the getChildren call
Categories == {"Outgoing Commits", "Changed Files", "Synced Commits", "Synced Files"}

\* pc is the await the call is at, "done" once its promise has resolved to
\* items and "rejected" once it has rejected. q.failed names the await whose
\* process failed ("none": none did) and q.outside tells whether it failed
\* for a reason outside the repository; q.loAt and q.hiAt are the commits
\* the ends of the range named when git ran the log.
\* q.prev is what an earlier call resolved to, for the runs that compare two
\* calls (SpecTwice); the other runs keep none.
NoResult ==
    [cat |-> "none", marker |-> NULL, items |-> <<>>, failed |-> "none",
     outside |-> FALSE]

QIdle ==
    [pc |-> "idle", cat |-> "none", branch |-> "", marker |-> NULL,
     lo |-> NoRev, hi |-> NoRev, loAt |-> NULL, hiAt |-> NULL,
     todo |-> <<>>, filesSet |-> <<>>, filesStatus |-> <<>>,
     items |-> <<>>, failed |-> "none", outside |-> FALSE, prev |-> NoResult]

\* return items
Resolved(items) == [q EXCEPT !.pc = "done", !.items = items]

\* return [item] from the catch block of one await's own try
ResolvedAt(item, at, up) ==
    [q EXCEPT !.pc = "done", !.items = <<item>>, !.failed = at, !.outside = ~up]

Quiet == UNCHANGED <<workspaceRoot, diff, repo, lastPushHash, markerBranch, upd, watch, treeEvents>>

\* getChildren(element) for a category element; without a workspace root it
\* resolves to [] at once.
getChildren(cat) ==
    /\ q.pc = "idle"
    /\ q' = IF workspaceRoot
            THEN [QIdle EXCEPT !.pc = "branch", !.cat = cat, !.prev = q.prev]
            ELSE [QIdle EXCEPT !.pc = "done", !.cat = cat, !.prev = q.prev]
    /\ Quiet

\* The entry each category's catch block makes of the error.
ErrorItem(cat) ==
    CASE cat = "Outgoing Commits" -> InfoItem(<<"Error loading commits", "Command failed">>)
      [] cat = "Changed Files" -> InfoItem(<<"Error loading files", "Command failed">>)
      [] cat = "Synced Commits" -> InfoItem(<<"Error loading synced commits">>)
      [] OTHER -> InfoItem(<<"Error loading synced files">>)

\* A getOutgoingCommits with no outer catch: the error goes to the caller;
\* C10 tells the two apart.
OutgoingCommitsRethrow(at, up) ==
    [q EXCEPT !.pc = "rejected", !.failed = at, !.outside = ~up]

\* The outer catch blocks: the await `at` threw.
OutgoingCommitsCatch(at, up) == ResolvedAt(ErrorItem("Outgoing Commits"), at, up)

\* A getChangedFiles that returns the files it has collected so far with the
\* error entry after them; C7 tells the two apart.
ChangedFilesCatchPartial(at, up) ==
    [q EXCEPT !.pc = "done", !.failed = at, !.outside = ~up,
              !.items = ChangedFileItems(q.filesSet, q.filesStatus)
                        \o <<ErrorItem("Changed Files")>>]

ChangedFilesCatch(at, up) == ResolvedAt(ErrorItem("Changed Files"), at, up)

\* A getSyncedCommits with no catch: the error goes to the caller of
\* getChildren; C11 tells the two apart.
SyncedCommitsRethrow(at, up) ==
    [q EXCEPT !.pc = "rejected", !.failed = at, !.outside = ~up]

SyncedCommitsCatch(at, up) == ResolvedAt(ErrorItem("Synced Commits"), at, up)

\* A getSyncedFiles whose catch returns the empty list; C25 tells the two
\* apart.
SyncedFilesCatchEmpty(at, up) ==
    [q EXCEPT !.pc = "done", !.items = <<>>, !.failed = at, !.outside = ~up]

SyncedFilesCatch(at, up) == ResolvedAt(ErrorItem("Synced Files"), at, up)

Catch(at, up) ==
    CASE q.cat = "Outgoing Commits" -> OutgoingCommitsCatch(at, up)
      [] q.cat = "Changed Files" -> ChangedFilesCatch(at, up)
      [] q.cat = "Synced Commits" -> SyncedCommitsCatch(at, up)
      [] OTHER -> SyncedFilesCatch(at, up)

\* PushStateTracker.getLastPushHash()
getLastPushHash == lastPushHash

\* A getOutgoingCommits whose range starts at the marker's parent, so that
\* the marker itself is listed; C1 tells the two apart.
OutgoingCommitsCommandFromParent(marker, branch) ==
    [lo |-> IF marker # NULL THEN ParentRev(marker) ELSE OriginRev(branch),
     hi |-> BranchRev(branch)]

\* getOutgoingCommits: lastPushHash ? `git log ${lastPushHash}..${currentBranch} --oneline`
\*                                  : `git log origin/${currentBranch}..${currentBranch} --oneline`
OutgoingCommitsCommand(marker, branch) ==
    [lo |-> IF marker # NULL THEN HashRev(marker) ELSE OriginRev(branch),
     hi |-> BranchRev(branch)]

\* A getChangedFiles that never looks at the marker; C2 tells the two apart.
ChangedFilesCommandOrigin(marker, branch) ==
    [lo |-> OriginRev(branch), hi |-> BranchRev(branch)]

\* A getChangedFiles that uses the marker on its first call only; C14 tells
\* the two apart.
ChangedFilesCommandOnce(marker, branch) ==
    [lo |-> IF marker # NULL /\ q.prev = NoResult THEN HashRev(marker)
            ELSE OriginRev(branch),
     hi |-> BranchRev(branch)]

\* getChangedFiles: lastPushHash ? `git log ${lastPushHash}..${currentBranch} --pretty=format:"%H"`
\*                               : `git log origin/${currentBranch}..${currentBranch} --pretty=format:"%H"`
ChangedFilesCommand(marker, branch) ==
    [lo |-> IF marker # NULL THEN HashRev(marker) ELSE OriginRev(branch),
     hi |-> BranchRev(branch)]

\* A getSyncedCommits that logs the empty range m..m; C8 tells the two
\* apart.
SyncedCommitsCommandEmpty(marker) == [lo |-> HashRev(marker), hi |-> HashRev(marker)]

\* getSyncedCommits: `git log ${lastPushHash}^..${lastPushHash} --oneline`
\* A getSyncedCommits whose range runs on to the tip of the branch; C26 tells
\* the two apart.
SyncedCommitsCommandToTip(marker) == [lo |-> ParentRev(marker), hi |-> BranchRev(head)]

SyncedCommitsCommand(marker) == [lo |-> ParentRev(marker), hi |-> HashRev(marker)]

\* A synced query that reports the missing marker as an error; C13 tells
\* the two apart.
NoMarkerItemError(cat) == ErrorItem(cat)

\* if (!lastPushHash) return [new GitOutgoingItem('No synced ...', None)]
NoMarkerItem(cat) ==
    InfoItem(<<IF cat = "Synced Commits" THEN "No synced commits"
               ELSE "No synced files">>)

\* await this.getCurrentBranch(), first await of all four categories; the two
\* synced categories read the marker right after it.
getCurrentBranch(up) ==
    /\ q.pc = "branch"
    /\ LET r == GitAbbrevRefHead(up)
           m == getLastPushHash
       IN  q' = IF ~r.ok THEN Catch("branch", up)
                ELSE IF q.cat \in {"Outgoing Commits", "Changed Files"}
                THEN [q EXCEPT !.pc = "worktree", !.branch = r.out]
                ELSE IF m = NULL
                THEN [Resolved(<<NoMarkerItem(q.cat)>>) EXCEPT !.branch = r.out]
                ELSE [q EXCEPT !.pc = IF q.cat = "Synced Commits" THEN "log" ELSE "diff",
                               !.branch = r.out, !.marker = m,
                               !.lo = SyncedCommitsCommand(m).lo,
                               !.hi = SyncedCommitsCommand(m).hi]
    /\ Quiet

\* await execAsync('git rev-parse --is-inside-work-tree')
CheckWorkTree(up) ==
    /\ q.pc = "worktree"
    /\ q' = IF GitIsInsideWorkTree(up).ok
            THEN [q EXCEPT !.pc = "remote"]
            ELSE ResolvedAt(InfoItem(<<"Not a git repository">>), "worktree", up)
    /\ Quiet

\* await execAsync('git remote get-url origin'), then the marker is read and
\* the log command is built.
CheckRemote(up) ==
    /\ q.pc = "remote"
    /\ LET cmd == IF q.cat = "Outgoing Commits"
                  THEN OutgoingCommitsCommand(getLastPushHash, q.branch)
                  ELSE ChangedFilesCommand(getLastPushHash, q.branch)
       IN  q' = IF GitRemoteGetUrl(up).ok
                THEN [q EXCEPT !.pc = "log", !.marker = getLastPushHash,
                               !.lo = cmd.lo, !.hi = cmd.hi]
                ELSE ResolvedAt(InfoItem(<<"No remote origin found">>), "remote", up)
    /\ Quiet


\* A parse that returns the empty list for an empty log; C12 tells the two
\* apart.
CommitItemsNoEntry(lines, none) ==
    LET commits == NonBlankLines(lines)
    IN  [i \in 1..Len(commits) |-> CommitItem(commits[i])]

\* Lines 142-163 and 274-296: the log of the range, parsed into commit items.
CommitItems(lines, none) ==
    LET commits == NonBlankLines(lines)
    IN  IF Len(commits) = 0 THEN <<InfoItem(<<none>>)>>
        ELSE [i \in 1..Len(commits) |-> CommitItem(commits[i])]

\* getOutgoingCommits from `await execAsync(command)` on.
OutgoingCommitsLog(up) ==
    /\ q.pc = "log" /\ q.cat = "Outgoing Commits"
    /\ LET r == GitLogOneline(up, q.lo, q.hi)
       IN  q' = IF ~r.ok THEN OutgoingCommitsCatch("log", up)
                ELSE [Resolved(CommitItems(r.out, "No outgoing commits"))
                      EXCEPT !.loAt = Resolve(q.lo), !.hiAt = Resolve(q.hi)]
    /\ Quiet

\* getSyncedCommits from `await execAsync(...)` on.
SyncedCommitsLog(up) ==
    /\ q.pc = "log" /\ q.cat = "Synced Commits"
    /\ LET r == GitLogOneline(up, q.lo, q.hi)
       IN  q' = IF ~r.ok THEN SyncedCommitsCatch("log", up)
                ELSE [Resolved(CommitItems(r.out, "No synced commits"))
                      EXCEPT !.loAt = Resolve(q.lo), !.hiAt = Resolve(q.hi)]
    /\ Quiet

\* getChangedFiles: the log of the outgoing commits (lines 207-214).
ChangedFilesLog(up) ==
    /\ q.pc = "log" /\ q.cat = "Changed Files"
    /\ LET r == GitLogHashes(up, q.lo, q.hi)
           commitHashes == NonBlankLines(r.out)
       IN  q' = IF ~r.ok THEN ChangedFilesCatch("log", up)
                ELSE IF Len(commitHashes) = 0
                THEN [Resolved(<<InfoItem(<<"No outgoing commits">>)>>)
                      EXCEPT !.loAt = Resolve(q.lo), !.hiAt = Resolve(q.hi)]
                ELSE [q EXCEPT !.pc = "show",
                               !.todo = [i \in 1..Len(commitHashes) |-> commitHashes[i][1]],
                               !.loAt = Resolve(q.lo), !.hiAt = Resolve(q.hi)]
    /\ Quiet

\* getChangedFiles: one turn of `for (const commitHash of commitHashes)`
\* (lines 220-237) and, after the last one, lines 239-257.
ChangedFilesShow(up) ==
    /\ q.pc = "show"
    /\ LET r == GitShowNameStatus(up, Head(q.todo))
           acc == AddLines(q.filesSet, q.filesStatus, NonBlankLines(r.out))
       IN  q' = IF ~r.ok THEN ChangedFilesCatch("show", up)
                ELSE IF Len(q.todo) > 1
                THEN [q EXCEPT !.todo = Tail(q.todo), !.filesSet = acc.filesSet,
                               !.filesStatus = acc.filesStatus]
                ELSE [Resolved(IF Len(acc.filesSet) = 0
                               THEN <<InfoItem(<<"No changes in outgoing commits">>)>>
                               ELSE ChangedFileItems(acc.filesSet, acc.filesStatus))
                      EXCEPT !.todo = <<>>, !.filesSet = acc.filesSet,
                             !.filesStatus = acc.filesStatus]
    /\ Quiet

\* getSyncedFiles from `await execAsync(...)` on (lines 313-338).
SyncedFilesDiff(up) ==
    /\ q.pc = "diff"
    /\ LET r == GitDiffNameStatus(up, q.marker)
           lines == NonBlankLines(r.out)
       IN  q' = IF ~r.ok THEN SyncedFilesCatch("diff", up)
                ELSE IF Len(lines) = 0
                THEN Resolved(<<InfoItem(<<"No synced files">>)>>)
                ELSE Resolved(SyncedFileItems(lines))
    /\ Quiet



\* The promise of getChildren has settled and the view has its answer.
Return ==
    /\ q.pc \in {"done", "rejected"}
    /\ q' = QIdle
    /\ Quiet

\* ------------------------------------------------------ PushStateTracker
\* One call of updateLastPushHash: the await it is at ("returned" once it
\* has assigned lastPushHash and its promise has resolved), the branch it
\* read, whether updateLastPush is the caller (fire: it awaits the call and
\* refreshes after it), whether the try block ran to its end (ok), and the
\* value lastPushHash held just before the call assigned it (was).
Call(pc, branch, fire) ==
    [pc |-> pc, branch |-> branch, fire |-> fire, ok |-> FALSE, was |-> NULL]

One(c) == SetToBag({c})
\* The constructor's call is the one that nobody awaits; there is one.
InFlight ==
    watch + BagCardinality(upd) - (IF \E c \in BagToSet(upd) : ~c.fire THEN 1 ELSE 0)

\* this._onDidChangeTreeData.fire()
Fire == treeEvents' = 1

\* The view's listener takes the event.
TreeChanged ==
    /\ treeEvents = 1
    /\ treeEvents' = 0
    /\ UNCHANGED <<workspaceRoot, diff, repo, lastPushHash, markerBranch, upd, watch, q>>

\* A refresh that asks for the merge base of the branch with itself, which
\* is the branch tip; C4 tells the two apart.
MergeBaseCommandTip(branch) == [a |-> BranchRev(branch), b |-> BranchRev(branch)]

\* A refresh that measures from the parent of the marker it holds, once it
\* holds one; C16 tells the two apart.
MergeBaseCommandFromMarker(branch) ==
    [a |-> IF lastPushHash # NULL THEN ParentRev(lastPushHash) ELSE OriginRev(branch),
     b |-> BranchRev(branch)]

\* `git merge-base origin/${branch} ${branch}`
MergeBaseCommand(branch) == [a |-> OriginRev(branch), b |-> BranchRev(branch)]

\* A catch block that leaves the marker as it was; C3 tells the two apart.
UpdateCatchKeeps(was) == was

\* The catch block: this.lastPushHash = null
UpdateCatch(was) == NULL

\* updateLastPushHash assigns lastPushHash and returns.
UpdReturn(c, ok, hash) ==
    /\ lastPushHash' = hash
    /\ markerBranch' = (IF hash = NULL THEN NoBranch ELSE c.branch)
    /\ upd' = (upd (-) One(c))
              (+) One([c EXCEPT !.pc = "returned", !.ok = ok, !.was = lastPushHash])
    /\ UNCHANGED treeEvents

\* A refresh that cancels the refreshes still in flight when it starts; C18
\* tells the two apart.
StartUpdateCancels(fire) ==
    /\ upd' = One(Call("revparse", "", fire))

\* updateLastPushHash up to its first await.
StartUpdate(fire) ==
    /\ upd' = upd (+) One(Call("revparse", "", fire))

\* updateLastPushHash, lines 29-31 and the catch block.
UpdateRevParse(c, up) ==
    /\ BagIn(c, upd) /\ c.pc = "revparse"
    /\ LET r == GitAbbrevRefHead(up)
       IN  IF r.ok
           THEN /\ upd' = (upd (-) One(c)) (+) One(Call("mergebase", r.out, c.fire))
                /\ UNCHANGED <<lastPushHash, markerBranch, treeEvents>>
           ELSE UpdReturn(c, FALSE, UpdateCatch(lastPushHash))
    /\ UNCHANGED <<workspaceRoot, diff, repo, watch, q>>

\* updateLastPushHash, lines 34-39 and the catch block.
UpdateMergeBase(c, up) ==
    /\ BagIn(c, upd) /\ c.pc = "mergebase"
    /\ \E r \in GitMergeBase(up, MergeBaseCommand(c.branch)) :
           IF r.ok THEN UpdReturn(c, TRUE, r.out)
           ELSE UpdReturn(c, FALSE, UpdateCatch(lastPushHash))
    /\ UNCHANGED <<workspaceRoot, diff, repo, watch, q>>

\* An updateLastPush that does not await the refresh of the marker and fires
\* the event at once; C5 tells the two apart.
updateLastPushUnawaited ==
    IF workspaceRoot THEN StartUpdate(FALSE) /\ Fire
    ELSE UNCHANGED <<upd, treeEvents>>

\* GitOutgoingProvider.updateLastPush() up to its await.
updateLastPush ==
    /\ IF workspaceRoot THEN StartUpdate(TRUE) ELSE UNCHANGED upd
    /\ UNCHANGED treeEvents

\* What follows the call's return, in the same turn of the event loop:
\* updateLastPush goes on to this.refresh(); the constructor awaits nothing.
\* A refresh that puts the old marker back after it has returned: a second
\* write by the same call; C17 tells the two apart.
AfterUpdateRewrites(c) ==
    /\ BagIn(c, upd) /\ c.pc = "returned"
    /\ upd' = upd (-) One(c)
    /\ lastPushHash' = c.was
    /\ UNCHANGED markerBranch
    /\ IF c.fire THEN Fire ELSE UNCHANGED treeEvents
    /\ UNCHANGED <<workspaceRoot, diff, repo, watch, q>>

\* A refresh that fires the event whoever started it, the constructor
\* included; C27 tells the two apart.
AfterUpdateFires(c) ==
    /\ BagIn(c, upd) /\ c.pc = "returned"
    /\ upd' = upd (-) One(c)
    /\ Fire
    /\ UNCHANGED <<workspaceRoot, diff, repo, lastPushHash, markerBranch, watch, q>>

AfterUpdate(c) ==
    /\ BagIn(c, upd) /\ c.pc = "returned"
    /\ upd' = upd (-) One(c)
    /\ IF c.fire THEN Fire ELSE UNCHANGED treeEvents
    /\ UNCHANGED <<workspaceRoot, diff, repo, lastPushHash, markerBranch, watch, q>>

\* The command gitOutgoingView.updateLastPush.
UpdateLastPushCommand ==
    /\ workspaceRoot => InFlight < MaxInFlight
    /\ updateLastPush
    /\ UNCHANGED <<workspaceRoot, diff, repo, lastPushHash, markerBranch, watch, q>>

\* ------------------------------------------------------------- activate()
\* A refresh() that also forgets the marker; C19 tells the two apart.
refreshForgets ==
    /\ Fire
    /\ lastPushHash' = NULL
    /\ UNCHANGED <<workspaceRoot, diff, markerBranch, repo, upd, watch, q>>

\* GitOutgoingProvider.refresh()
refresh ==
    /\ Fire
    /\ UNCHANGED <<workspaceRoot, diff, repo, lastPushHash, markerBranch, upd, watch, q>>

\* The command gitOutgoingView.refresh, onDidChangeActiveTextEditor, and the
\* watcher's onDidCreate and onDidDelete.
RefreshCommand == refresh
OnDidChangeActiveTextEditor == refresh
OnDidCreate == refresh
OnDidDelete == refresh

\* treeView.onDidChangeSelection with showFileDiff and showCommitDiff: their
\* git processes read the repository and end in a diff editor or an error
\* message; they are handed the provider and never use it. The steps of
\* showFileDiff itself are followed by SelectItem and the actions after it.
OnDidChangeSelection ==
    UNCHANGED <<workspaceRoot, diff, repo, lastPushHash, markerBranch, upd, watch, q, treeEvents>>

\* gitWatcher.onDidChange: starts `git reflog -1`, or refreshes at once.
OnDidChange ==
    /\ IF workspaceRoot
       THEN /\ InFlight < MaxInFlight
            /\ watch' = watch + 1
            /\ UNCHANGED treeEvents
       ELSE /\ Fire
            /\ UNCHANGED watch
    /\ UNCHANGED <<workspaceRoot, diff, repo, lastPushHash, markerBranch, upd, q>>

\* git reflog -1 : whether its line includes 'push' is the text of the last
\* reflog entry of HEAD, which the user's messages and branch names decide.
GitReflog(up, push) == Answer(up /\ isRepo, push)

\* A reflog check whose .catch only logs the error; C20 tells the two apart.
OnReflogSilent(up, push) ==
    /\ watch > 0
    /\ watch' = watch - 1
    /\ LET r == GitReflog(up, push)
       IN  IF r.ok /\ r.out THEN updateLastPush
           ELSE IF r.ok THEN Fire /\ UNCHANGED upd
           ELSE UNCHANGED <<upd, treeEvents>>
    /\ UNCHANGED <<workspaceRoot, diff, repo, lastPushHash, markerBranch, q>>

\* The .then / .catch of the reflog check.
OnReflog(up, push) ==
    /\ watch > 0
    /\ watch' = watch - 1
    /\ LET r == GitReflog(up, push)
       IN  IF r.ok /\ r.out
           THEN updateLastPush
           ELSE /\ Fire
                /\ UNCHANGED upd
    /\ UNCHANGED <<workspaceRoot, diff, repo, lastPushHash, markerBranch, q>>

\* ------------------------------------------------------- showFileDiff
\* The tree of a commit: the status of path x in what commit c changes, and
\* the commit whose version of x the tree of c holds (NULL when the tree has
\* no x), following first parents.
TouchStatus(c, x) ==
    LET ls == {i \in 1..Len(NameStatus(c)) : FileOf(NameStatus(c)[i]) = x}
    IN  IF ls = {} THEN Undefined
        ELSE StatusOf(NameStatus(c)[CHOOSE i \in ls : \A j \in ls : i <= j])

RECURSIVE BlobAt(_, _)
BlobAt(c, x) ==
    IF TouchStatus(c, x) = "D" THEN NULL
    ELSE IF TouchStatus(c, x) # Undefined THEN c
    ELSE IF parents[c] = <<>> THEN NULL
    ELSE BlobAt(parents[c][1], x)

\* A text as the sequence of its words; the empty text is <<>>. The text of
\* a file in a tree names the path and the commit that wrote it, the text
\* of the file on disk names the path.
EmptyText == <<>>
BlobText(x, c) == <<"text of", x, "as of commit", ToString(c)>>
DiskText(x) == <<"text of", x, "on disk">>

\* git rev-parse --verify <ref>
GitRevParseVerify(up, ref) ==
    LET ok == up /\ isRepo /\ Resolve(ref) # NULL
    IN  Answer(ok, IF ok THEN <<ToString(Resolve(ref))>>
                   ELSE IF ~up THEN <<"spawn failed">>
                   ELSE IF ~isRepo THEN <<"fatal: not a git repository">>
                   ELSE <<"fatal: Needed a single revision">>)

\* git show <ref>:"<path>" : the file's text, or git's complaint, which
\* differs with the path being on disk or not.
GitShowFile(up, ref, x, onDisk) ==
    LET c == Resolve(ref)
        ok == up /\ isRepo /\ c # NULL /\ BlobAt(c, x) # NULL
    IN  Answer(ok, IF ok THEN BlobText(x, BlobAt(c, x))
                   ELSE IF ~up THEN <<"spawn failed">>
                   ELSE IF ~isRepo THEN <<"fatal: not a git repository">>
                   ELSE IF c = NULL THEN <<"fatal: invalid object name">>
                   ELSE IF onDisk THEN <<"fatal: path", x, "exists on disk, but not in", ToString(c)>>
                   ELSE <<"fatal: path", x, "does not exist in", ToString(c)>>)

\* error.message.includes(word)
Includes(message, word) == \E i \in 1..Len(message) : message[i] = word

\* vscode.Uri.parse('empty-diff:empty'), vscode.Uri.parse(`git-base:${file}?ref=${ref}`),
\* vscode.Uri.file(path.join(workspaceRoot, file))
Uri(scheme, path, ref) == [scheme |-> scheme, path |-> path, ref |-> ref]
EmptyUri == Uri("empty-diff", "empty", NoRev)
GitBaseUri(file, ref) == Uri("git-base", file, ref)
FileUri(file) == Uri("file", file, NoRev)

\* The catch block of provideTextDocumentContent, lines 409-422.
ContentCatch(x, ref, message) ==
    IF Includes(message, "does not exist in")
    THEN <<"File", x, "does not exist at commit", ToString(ref)>>
    ELSE IF Includes(message, "bad revision")
    THEN <<"Invalid git reference:", ToString(ref)>>
    ELSE IF Includes(message, "Path")
    THEN <<"File", x, "not found at commit", ToString(ref)>>
    ELSE <<"Error loading file content from git:">> \o message

\* GitContentProvider.provideTextDocumentContent(uri) for a uri that has a
\* ref: the text it resolves to. up1 and up2 say whether its two processes
\* run; new is the uri's `new=true`.
provideTextDocumentContent(uri, new, up1, up2, onDisk) ==
    IF ~workspaceRoot THEN <<"No workspace root available">>
    ELSE IF new
    THEN IF onDisk THEN DiskText(uri.path) ELSE <<"Error reading file:", "ENOENT">>
    ELSE LET verify == GitRevParseVerify(up1, uri.ref)
             show == GitShowFile(up2, uri.ref, uri.path, onDisk)
         IN  IF ~verify.ok THEN ContentCatch(uri.path, uri.ref, verify.out)
             ELSE IF ~show.ok THEN ContentCatch(uri.path, uri.ref, show.out)
             ELSE show.out

\* EmptyContentProvider.provideTextDocumentContent
EmptyContent == EmptyText

\* No tree item is selected. listedFrom is the lower bound of the range the
\* list came from; onDisk and failedAt record what the call met.
DiffIdle ==
    [pc |-> "idle", file |-> Undefined, status |-> Undefined, listedFrom |-> NULL,
     branch |-> NoBranch, baseCommit |-> NULL, onDisk |-> TRUE, failedAt |-> "none",
     opened |-> <<>>, errors |-> <<>>, contents |-> <<>>]

QuietDiff == UNCHANGED <<workspaceRoot, repo, lastPushHash, markerBranch, upd, watch, q, treeEvents>>

\* vscode.window.showErrorMessage(text) and return
DiffFailed(at, text) ==
    [diff EXCEPT !.pc = "failed", !.failedAt = at, !.errors = Append(@, text)]

\* await vscode.commands.executeCommand('vscode.diff', left, right, title)
DiffShown(left, right, title) ==
    [diff EXCEPT !.pc = "shown",
                 !.opened = Append(@, [left |-> left, right |-> right, title |-> title])]

\* showFileDiff(file, status, workspaceRoot, provider) up to its first await.
showFileDiff(file, status, from) ==
    /\ diff.pc = "idle"
    /\ diff' = IF ~workspaceRoot
               THEN [DiffFailed("root", <<"No workspace root found">>)
                     EXCEPT !.file = file, !.status = status, !.listedFrom = from]
               ELSE [DiffIdle EXCEPT !.pc = "revparse", !.file = file,
                                     !.status = status, !.listedFrom = from]
    /\ QuietDiff

\* treeView.onDidChangeSelection on the i-th entry of the list the view
\* holds: a file entry goes to showFileDiff; an informational entry and a
\* file entry without a path go nowhere (the commit branch, showCommitDiff,
\* is not followed here).
SelectItem(i) ==
    /\ q.pc = "done" /\ i \in 1..Len(q.items)
    /\ LET item == q.items[i]
       IN  /\ item.itemType = "file" /\ Truthy(item.file) /\ Truthy(item.status)
           /\ showFileDiff(item.file, item.status, q.loAt)

\* await execAsync('git rev-parse --abbrev-ref HEAD'); a failure goes to the
\* outer catch.
ShowFileDiffRevParse(up) ==
    /\ diff.pc = "revparse"
    /\ LET r == GitAbbrevRefHead(up)
       IN  diff' = IF r.ok THEN [diff EXCEPT !.pc = "mergebase", !.branch = r.out]
                   ELSE DiffFailed("revparse", <<"Failed to show file diff", diff.file>>)
    /\ QuietDiff

\* A Deleted file shown the wrong way round: empty against base.
DeletedDiffReversed(file, base) ==
    DiffShown(EmptyUri, GitBaseUri(file, HashRev(base)), "Deleted in outgoing commits")

\* status === 'D': base against empty, lines 579-586.
DeletedDiff(file, base) ==
    DiffShown(GitBaseUri(file, HashRev(base)), EmptyUri, "Deleted in outgoing commits")

\* await execAsync(`git merge-base origin/${branch} ${branch}`) in its own
\* try; then the uris are made and a Deleted file is shown at once.
ShowFileDiffMergeBase(up) ==
    /\ diff.pc = "mergebase"
    /\ \E r \in GitMergeBase(up, MergeBaseCommand(diff.branch)) :
           diff' = IF ~r.ok
                   THEN DiffFailed("mergebase", <<"Error determining base commit for diff">>)
                   ELSE IF diff.status = "D"
                   THEN [DeletedDiff(diff.file, r.out) EXCEPT !.baseCommit = r.out]
                   ELSE [diff EXCEPT !.pc = "access", !.baseCommit = r.out]
    /\ QuietDiff

\* await fs.promises.access(path.join(workspaceRoot, file)) and what follows
\* it, for an Added file (lines 587-606) and for any other (lines 607-629).
ShowFileDiffAccess(onDisk) ==
    /\ diff.pc = "access"
    /\ LET base == GitBaseUri(diff.file, HashRev(diff.baseCommit))
           d == [diff EXCEPT !.onDisk = onDisk]
       IN  diff' =
             IF diff.status = "A"
             THEN IF onDisk
                  THEN [DiffShown(EmptyUri, FileUri(diff.file), "Added in outgoing commits")
                        EXCEPT !.onDisk = onDisk]
                  ELSE [DiffFailed("access", <<"Failed to show file diff:", "ENOENT">>)
                        EXCEPT !.onDisk = onDisk]
             ELSE IF onDisk
                  THEN [DiffShown(base, FileUri(diff.file), "Modified in outgoing commits")
                        EXCEPT !.onDisk = onDisk]
                  ELSE [DiffShown(base, GitBaseUri(diff.file, HeadRev),
                                  "Modified in outgoing commits")
                        EXCEPT !.onDisk = onDisk]
    /\ QuietDiff

\* The sides of the opened diff, left first, and the text the editor gets
\* for a uri from the provider registered for its scheme.
Sides == IF diff.opened = <<>> THEN <<>>
         ELSE <<diff.opened[1].left, diff.opened[1].right>>

ContentOf(uri, up1, up2) ==
    CASE uri.scheme = "git-base" ->
             provideTextDocumentContent(uri, FALSE, up1, up2, diff.onDisk)
      [] uri.scheme = "empty-diff" -> EmptyContent
      [] OTHER -> DiskText(uri.path)

\* The diff editor asks for the text of its next side; ran records that
\* the provider's processes were run.
ProvideContent(up1, up2) ==
    /\ diff.pc = "shown" /\ Len(diff.contents) < Len(Sides)
    /\ LET uri == Sides[Len(diff.contents) + 1]
       IN  diff' = [diff EXCEPT !.contents =
                        Append(@, [uri |-> uri, ran |-> up1 /\ up2,
                                   text |-> ContentOf(uri, up1, up2)])]
    /\ QuietDiff

\* The editor is closed, or the message dismissed.
CloseDiff ==
    /\ \/ diff.pc = "failed"
       \/ diff.pc = "shown" /\ Len(diff.contents) = Len(Sides)
    /\ diff' = DiffIdle
    /\ QuietDiff

\* ------------------------------------------------------- the repository
Still == UNCHANGED <<workspaceRoot, diff, lastPushHash, markerBranch, upd, watch, q, treeEvents>>

NewCommit(ps) ==
    /\ Len(parents) < MaxCommits
    /\ parents' = Append(parents, ps)

\* git commit on the checked-out branch
GitCommit ==
    /\ isRepo
    /\ NewCommit(<<local[head]>>)
    /\ local' = [local EXCEPT ![head] = Len(parents) + 1]
    /\ UNCHANGED <<isRepo, hasOrigin, remote, head>>
    /\ Still

\* git fetch bringing one commit somebody else pushed to origin/<head>
GitFetch ==
    /\ isRepo /\ hasOrigin /\ remote[head] # NULL
    /\ NewCommit(<<remote[head]>>)
    /\ remote' = [remote EXCEPT ![head] = Len(parents) + 1]
    /\ UNCHANGED <<isRepo, hasOrigin, local, head>>
    /\ Still

\* git merge origin/<head>: fast-forward, or a merge commit
GitMerge ==
    /\ isRepo /\ remote[head] # NULL /\ remote[head] \notin Reach(local[head])
    /\ IF local[head] \in Reach(remote[head])
       THEN /\ local' = [local EXCEPT ![head] = remote[head]]
            /\ UNCHANGED parents
       ELSE /\ NewCommit(<<local[head], remote[head]>>)
            /\ local' = [local EXCEPT ![head] = Len(parents) + 1]
    /\ UNCHANGED <<isRepo, hasOrigin, remote, head>>
    /\ Still

\* git push origin <head> (no force)
GitPush ==
    /\ isRepo /\ hasOrigin
    /\ remote[head] # local[head]
    /\ remote[head] \in Reach(local[head]) \cup {NULL}
    /\ remote' = [remote EXCEPT ![head] = local[head]]
    /\ UNCHANGED <<isRepo, hasOrigin, parents, local, head>>
    /\ Still

\* git checkout <b>, creating b at the current tip when it does not exist
GitCheckout(b) ==
    /\ isRepo /\ b # head
    /\ head' = b
    /\ local' = IF local[b] = NULL THEN [local EXCEPT ![b] = local[head]] ELSE local
    /\ UNCHANGED <<isRepo, hasOrigin, parents, remote>>
    /\ Still

\* ------------------------------------------------------- specification
\* activate(): the provider is constructed; with a workspace root its
\* constructor starts the first updateLastPushHash and does not await it.
Init ==
    /\ workspaceRoot \in BOOLEAN
    /\ isRepo \in BOOLEAN
    /\ hasOrigin \in BOOLEAN
    /\ parents = << <<>> >>
    /\ local = [b \in Branches |-> IF b = "main" THEN 1 ELSE NULL]
    /\ remote = [b \in Branches |-> NULL]
    /\ head = "main"
    /\ lastPushHash = NULL
    /\ upd = IF workspaceRoot THEN One(Call("revparse", "", FALSE)) ELSE EmptyBag
    /\ watch = 0
    /\ q = QIdle
    /\ treeEvents = 0
    /\ markerBranch = NoBranch
    /\ diff = DiffIdle

Calls == BagToSet(upd)

\* A settled promise and a fired event are handed on before anything else
\* runs.
Ready ==
    /\ q.pc \notin {"done", "rejected"}
    /\ treeEvents = 0
    /\ \A c \in Calls : c.pc # "returned"

Next ==
    \/ Return
    \/ TreeChanged
    \/ Ready /\ \E cat \in Categories : getChildren(cat)
    \/ Ready /\ \E up \in BOOLEAN : getCurrentBranch(up)
    \/ Ready /\ \E up \in BOOLEAN : CheckWorkTree(up)
    \/ Ready /\ \E up \in BOOLEAN : CheckRemote(up)
    \/ Ready /\ \E up \in BOOLEAN : OutgoingCommitsLog(up)
    \/ Ready /\ \E up \in BOOLEAN : ChangedFilesLog(up)
    \/ Ready /\ \E up \in BOOLEAN : ChangedFilesShow(up)
    \/ Ready /\ \E up \in BOOLEAN : SyncedCommitsLog(up)
    \/ Ready /\ \E up \in BOOLEAN : SyncedFilesDiff(up)
    \/ Ready /\ \E c \in Calls, up \in BOOLEAN : UpdateRevParse(c, up)
    \/ Ready /\ \E c \in Calls, up \in BOOLEAN : UpdateMergeBase(c, up)
    \/ \E c \in Calls : AfterUpdate(c)
    \/ Ready /\ UpdateLastPushCommand
    \/ Ready /\ RefreshCommand
    \/ Ready /\ OnDidChangeActiveTextEditor
    \/ Ready /\ OnDidCreate
    \/ Ready /\ OnDidDelete
    \/ Ready /\ OnDidChangeSelection
    \/ Ready /\ OnDidChange
    \/ Ready /\ \E up \in BOOLEAN, push \in BOOLEAN : OnReflog(up, push)
    \/ Ready /\ GitCommit
    \/ Ready /\ GitFetch
    \/ Ready /\ GitMerge
    \/ Ready /\ GitPush
    \/ Ready /\ \E b \in Branches : GitCheckout(b)

Spec == Init /\ [][Next]_vars

\* ------------------------------------------- the queries on any repository
\* The histories of at most MaxHistory commits: one root; every other commit
\* has one parent, or two of which neither is an ancestor of the other.
ParentLists(n) ==
    {<<>>} \cup {<<a>> : a \in 1..n} \cup {<<a, b>> : a \in 1..n, b \in 1..n}

WellFormed(h) ==
    /\ h[1] = <<>>
    /\ \A c \in 2..Len(h) :
          /\ h[c] # <<>>
          /\ \A i \in 1..Len(h[c]) : h[c][i] < c
          /\ Len(h[c]) = 2 =>
                /\ h[c][1] \notin ReachIn(h, h[c][2])
                /\ h[c][2] \notin ReachIn(h, h[c][1])

HistoriesUpTo(max) ==
    UNION {{h \in [1..n -> ParentLists(n)] : WellFormed(h)} : n \in 1..max}

Histories == HistoriesUpTo(MaxHistory)

\* The extension is idle on a repository in any state: any history, the
\* checked-out branch and its tracking ref anywhere on it (the queries read
\* no other ref, so there is none), and any marker an earlier refresh left
\* behind.
InitQuery ==
    /\ workspaceRoot = TRUE
    /\ isRepo = TRUE
    /\ hasOrigin \in BOOLEAN
    /\ parents \in Histories
    /\ head \in Branches
    /\ local \in [Branches -> 0..Len(parents)]
    /\ remote \in [Branches -> 0..Len(parents)]
    /\ \A b \in Branches : IF b = head THEN local[b] # NULL
                            ELSE local[b] = NULL /\ remote[b] = NULL
    /\ ~hasOrigin => remote[head] = NULL
    /\ lastPushHash \in 0..Len(parents)
    /\ upd = EmptyBag
    /\ watch = 0
    /\ q = QIdle
    /\ treeEvents = 0
    /\ markerBranch = NoBranch
    /\ diff = DiffIdle

NextQuery ==
    \/ Return
    \/ Ready /\ \E cat \in Categories : getChildren(cat)
    \/ Ready /\ \E up \in BOOLEAN : getCurrentBranch(up)
    \/ Ready /\ \E up \in BOOLEAN : CheckWorkTree(up)
    \/ Ready /\ \E up \in BOOLEAN : CheckRemote(up)
    \/ Ready /\ \E up \in BOOLEAN : OutgoingCommitsLog(up)
    \/ Ready /\ \E up \in BOOLEAN : ChangedFilesLog(up)
    \/ Ready /\ \E up \in BOOLEAN : ChangedFilesShow(up)
    \/ Ready /\ \E up \in BOOLEAN : SyncedCommitsLog(up)
    \/ Ready /\ \E up \in BOOLEAN : SyncedFilesDiff(up)

SpecQuery == InitQuery /\ [][NextQuery]_vars

\* ------------------------- two calls of getChangedFiles, nothing committed
\* The view has the answer of a call: it keeps the answer of a first call
\* next to the second one, and starts afresh after the second.
ReturnKept ==
    /\ q.pc \in {"done", "rejected"}
    /\ q' = IF q.prev = NoResult
            THEN [QIdle EXCEPT !.prev = [cat |-> q.cat, marker |-> q.marker,
                                         items |-> q.items, failed |-> q.failed,
                                         outside |-> q.outside]]
            ELSE QIdle
    /\ Quiet

\* Any repository, any marker, and possibly a refresh in flight: the
\* constructor's, or one that updateLastPush awaits.
InitTwice ==
    /\ workspaceRoot = TRUE
    /\ isRepo = TRUE
    /\ hasOrigin \in BOOLEAN
    /\ parents \in HistoriesUpTo(MaxTwice)
    /\ head \in Branches
    /\ local \in [Branches -> 0..Len(parents)]
    /\ remote \in [Branches -> 0..Len(parents)]
    /\ \A b \in Branches : IF b = head THEN local[b] # NULL
                            ELSE local[b] = NULL /\ remote[b] = NULL
    /\ ~hasOrigin => remote[head] = NULL
    /\ lastPushHash \in 0..Len(parents)
    /\ upd \in {EmptyBag} \cup {One(Call("revparse", "", fire)) : fire \in BOOLEAN}
    /\ watch = 0
    /\ q = QIdle
    /\ treeEvents = 0
    /\ markerBranch = NoBranch
    /\ diff = DiffIdle

\* getChangedFiles is called twice while refreshes complete; no action
\* changes the repository.
NextTwice ==
    \/ ReturnKept
    \/ TreeChanged
    \/ \E c \in Calls : AfterUpdate(c)
    \/ Ready /\ getChildren("Changed Files")
    \/ Ready /\ \E up \in BOOLEAN : getCurrentBranch(up)
    \/ Ready /\ \E up \in BOOLEAN : CheckWorkTree(up)
    \/ Ready /\ \E up \in BOOLEAN : CheckRemote(up)
    \/ Ready /\ \E up \in BOOLEAN : ChangedFilesLog(up)
    \/ Ready /\ \E up \in BOOLEAN : ChangedFilesShow(up)
    \/ Ready /\ \E c \in Calls, up \in BOOLEAN : UpdateRevParse(c, up)
    \/ Ready /\ \E c \in Calls, up \in BOOLEAN : UpdateMergeBase(c, up)

SpecTwice == InitTwice /\ [][NextTwice]_vars

\* ------------------------------- refreshes one after another, nothing committed
\* Any folder, any repository in it, any marker; the constructor's refresh
\* is in flight.
InitRefresh ==
    /\ workspaceRoot = TRUE
    /\ isRepo \in BOOLEAN
    /\ hasOrigin \in BOOLEAN
    /\ parents \in HistoriesUpTo(MaxTwice)
    /\ head \in Branches
    /\ local \in [Branches -> 0..Len(parents)]
    /\ remote \in [Branches -> 0..Len(parents)]
    /\ \A b \in Branches : IF b = head THEN local[b] # NULL
                            ELSE local[b] = NULL /\ remote[b] = NULL
    /\ ~hasOrigin => remote[head] = NULL
    /\ lastPushHash \in 0..Len(parents)
    /\ upd = One(Call("revparse", "", FALSE))
    /\ watch = 0
    /\ q = QIdle
    /\ treeEvents = 0
    /\ markerBranch = NoBranch
    /\ diff = DiffIdle

\* The updateLastPush command is run again and again; no action changes the
\* repository, and git fails only where the repository makes it fail.
NextRefresh ==
    \/ TreeChanged
    \/ \E c \in Calls : AfterUpdate(c)
    \/ Ready /\ UpdateLastPushCommand
    \/ Ready /\ \E c \in Calls : UpdateRevParse(c, TRUE)
    \/ Ready /\ \E c \in Calls : UpdateMergeBase(c, TRUE)

SpecRefresh == InitRefresh /\ [][NextRefresh]_vars

\* ------------------------------------- the watcher, every process terminating
\* A changed signal is being served: its reflog check is pending, or the
\* updateLastPush it handed over to has not fired its event yet.
Pending == watch > 0 \/ \E c \in Calls : c.fire

\* The signals, the refresh sources and the repository as in Next; one
\* changed signal is followed at a time, and updateLastPush is run by the
\* watcher alone, so that a refresh that fires belongs to that signal.
NextLive ==
    \/ TreeChanged
    \/ \E c \in Calls : AfterUpdate(c)
    \/ Ready /\ \E c \in Calls, up \in BOOLEAN : UpdateRevParse(c, up)
    \/ Ready /\ \E c \in Calls, up \in BOOLEAN : UpdateMergeBase(c, up)
    \/ Ready /\ RefreshCommand
    \/ Ready /\ OnDidChangeActiveTextEditor
    \/ Ready /\ OnDidCreate
    \/ Ready /\ OnDidDelete
    \/ Ready /\ ~Pending /\ OnDidChange
    \/ Ready /\ \E up \in BOOLEAN, push \in BOOLEAN : OnReflog(up, push)
    \/ Ready /\ GitCommit
    \/ Ready /\ GitFetch
    \/ Ready /\ GitMerge
    \/ Ready /\ GitPush
    \/ Ready /\ \E b \in Branches : GitCheckout(b)

\* Every git process terminates and its continuation runs (strong fairness:
\* a fired event is handed on first, so a continuation is enabled again and
\* again rather than without a break); a fired event reaches the listener
\* and a returned call goes on (weak fairness).
Terminates ==
    /\ WF_vars(TreeChanged)
    /\ WF_vars(\E c \in Calls : AfterUpdate(c))
    /\ SF_vars(Ready /\ \E c \in Calls, up \in BOOLEAN : UpdateRevParse(c, up))
    /\ SF_vars(Ready /\ \E c \in Calls, up \in BOOLEAN : UpdateMergeBase(c, up))
    /\ SF_vars(Ready /\ \E up \in BOOLEAN, push \in BOOLEAN : OnReflog(up, push))

SpecLive == Init /\ [][NextLive]_vars /\ Terminates

\* ------------------------------------------- the diff of a listed file
\* Any repository, any marker; 'Changed Files' is expanded, no process of it
\* failing, and its file entries are selected one after another.
InitDiff ==
    /\ workspaceRoot = TRUE
    /\ isRepo = TRUE
    /\ hasOrigin \in BOOLEAN
    /\ parents \in HistoriesUpTo(MaxShown)
    /\ head \in Branches
    /\ local \in [Branches -> 0..Len(parents)]
    /\ remote \in [Branches -> 0..Len(parents)]
    /\ \A b \in Branches : IF b = head THEN local[b] # NULL
                            ELSE local[b] = NULL /\ remote[b] = NULL
    /\ ~hasOrigin => remote[head] = NULL
    /\ lastPushHash \in 0..Len(parents)
    /\ markerBranch = NoBranch
    /\ upd = EmptyBag
    /\ watch = 0
    /\ q = QIdle
    /\ treeEvents = 0
    /\ diff = DiffIdle

NextDiff ==
    \/ getChildren("Changed Files")
    \/ getCurrentBranch(TRUE)
    \/ CheckWorkTree(TRUE)
    \/ CheckRemote(TRUE)
    \/ ChangedFilesLog(TRUE)
    \/ ChangedFilesShow(TRUE)
    \/ \E i \in 1..Cardinality(Paths) : SelectItem(i)
    \/ \E up \in BOOLEAN : ShowFileDiffRevParse(up)
    \/ \E up \in BOOLEAN : ShowFileDiffMergeBase(up)
    \/ \E onDisk \in BOOLEAN : ShowFileDiffAccess(onDisk)
    \/ \E up1, up2 \in BOOLEAN : ProvideContent(up1, up2)
    \/ CloseDiff

SpecDiff == InitDiff /\ [][NextDiff]_vars

\* --------------------------------- the queries, every process terminating
\* Any folder with a workspace root, a repository or not, any marker, and
\* the constructor's refresh in flight; every git process of a query
\* terminates and the query goes on (strong fairness: a returned refresh is
\* handed on first), the view takes each answer, and the refresh runs to
\* its end.
QuerySteps ==
    \/ Ready /\ \E up \in BOOLEAN : getCurrentBranch(up)
    \/ Ready /\ \E up \in BOOLEAN : CheckWorkTree(up)
    \/ Ready /\ \E up \in BOOLEAN : CheckRemote(up)
    \/ Ready /\ \E up \in BOOLEAN : OutgoingCommitsLog(up)
    \/ Ready /\ \E up \in BOOLEAN : ChangedFilesLog(up)
    \/ Ready /\ \E up \in BOOLEAN : ChangedFilesShow(up)
    \/ Ready /\ \E up \in BOOLEAN : SyncedCommitsLog(up)
    \/ Ready /\ \E up \in BOOLEAN : SyncedFilesDiff(up)

NextAnswer ==
    \/ Return
    \/ Ready /\ \E cat \in Categories : getChildren(cat)
    \/ QuerySteps
    \/ Ready /\ \E c \in Calls, up \in BOOLEAN : UpdateRevParse(c, up)
    \/ Ready /\ \E c \in Calls, up \in BOOLEAN : UpdateMergeBase(c, up)
    \/ \E c \in Calls : AfterUpdate(c)

SpecAnswer ==
    /\ InitRefresh
    /\ [][NextAnswer]_vars
    /\ SF_vars(QuerySteps)
    /\ WF_vars(Return)
    /\ WF_vars(\E c \in Calls : AfterUpdate(c))

\* ============================================================ properties
\* The hashes of the commit entries of a list, in the order of the list.
CommitHashes(items) ==
    LET cs == SelectSeq(items, LAMBDA i : i.itemType = "commit")
    IN  [k \in 1..Len(cs) |-> cs[k].hash]

\* A sequence of commits that runs from newer to older and so repeats none.
NewerFirst(hs) == \A i, j \in 1..Len(hs) : i < j => hs[i] > hs[j]

\* C1 (SpecQuery): when getOutgoingCommits read a Known marker m and all its
\* git processes succeeded, its commit entries are exactly the commits
\* reachable from the tip of the current branch and not from m, m itself
\* excluded, newest first and none twice; when there is none, the list is
\* the one entry 'No outgoing commits'.
C1_OutgoingAfterMarker ==
    (q.pc = "done" /\ q.cat = "Outgoing Commits" /\ q.failed = "none"
     /\ q.marker # NULL) =>
        LET hs == CommitHashes(q.items)
            range == {c \in Reach(local[head]) : c \notin Reach(q.marker)}
        IN  /\ SeqRange(hs) = range
            /\ NewerFirst(hs)
            /\ q.marker \notin SeqRange(hs)
            /\ IF range = {}
               THEN q.items = <<InfoItem(<<"No outgoing commits">>)>>
               ELSE Len(q.items) = Len(hs)

\* A list of two outgoing commits after a marker that has ancestors.
C1_Witness ==
    /\ q.pc = "done" /\ q.cat = "Outgoing Commits" /\ q.failed = "none"
    /\ q.marker # NULL /\ parents[q.marker] # <<>>
    /\ Len(CommitHashes(q.items)) >= 2

\* C2 (Spec): getOutgoingCommits and getChangedFiles build the same range
\* from the marker as it is at the moment they read it: from the marker when
\* it is Known, from origin/<branch> when it is Unknown, up to the branch
\* the call read as the current one; and that is the range whose ends git
\* resolves when the log runs.
C2_SameRange ==
    [][ /\ (q.pc = "remote" /\ q'.pc = "log") =>
             /\ q'.cat \in {"Outgoing Commits", "Changed Files"}
             /\ q'.lo = IF lastPushHash # NULL THEN HashRev(lastPushHash)
                        ELSE OriginRev(q.branch)
             /\ q'.hi = BranchRev(q.branch)
        /\ (q.pc = "log" /\ q.cat \in {"Outgoing Commits", "Changed Files"}
            /\ q'.pc \in {"show", "done"} /\ q'.failed = "none") =>
             /\ q'.loAt = (IF q.marker # NULL THEN q.marker ELSE remote[q.branch])
             /\ q'.hiAt = local[q.branch]
      ]_vars

\* getChangedFiles about to run its log from a Known marker.
C2_Witness ==
    /\ q.pc = "log" /\ q.cat = "Changed Files"
    /\ q.marker # NULL /\ q.lo = HashRev(q.marker)

\* C3 (Spec): a marker refresh whose rev-parse or merge-base process failed
\* has set the marker to Unknown by the time it returns, whatever the marker
\* was before.
C3_FailedRefreshForgets ==
    \A c \in Calls : (c.pc = "returned" /\ ~c.ok) => lastPushHash = NULL

\* A failed refresh has just returned, and the marker was Known before it.
C3_Witness ==
    \E c \in Calls : c.pc = "returned" /\ ~c.ok /\ c.was # NULL /\ lastPushHash = NULL

\* C4 (Spec): the marker is Unknown at construction; it changes only in the
\* step in which a refresh returns, and it becomes Known only when that
\* refresh (started by the constructor or by updateLastPush) ran its
\* merge-base query with success, the new value being a merge base of
\* origin/<branch> and <branch> for the branch that refresh read.
C4_KnownOnlyFromMergeBase ==
    /\ lastPushHash = NULL
    /\ [][ lastPushHash' # lastPushHash =>
             \E d \in Calls : \E ok \in BOOLEAN :
                 /\ upd' = (upd (-) One(d))
                           (+) One([d EXCEPT !.pc = "returned", !.ok = ok,
                                             !.was = lastPushHash])
                 /\ lastPushHash' # NULL =>
                        /\ ok /\ d.pc = "mergebase"
                        /\ remote[d.branch] # NULL /\ local[d.branch] # NULL
                        /\ lastPushHash' \in
                               BestCommonAncestors(remote[d.branch], local[d.branch])
       ]_vars

\* A refresh has just made the marker Known, and the merge base is behind
\* the tip of the branch.
C4_Witness ==
    \E c \in Calls : /\ c.pc = "returned" /\ c.ok /\ c.was = NULL
                     /\ lastPushHash # NULL /\ lastPushHash # local[c.branch]

LoggedRange == Reach(q.hiAt) \ Reach(q.loAt)

\* The lines of `git show --name-status` of commit c that name path x, and
\* the status on the first of them.
LinesNaming(c, x) ==
    {i \in 1..Len(NameStatus(c)) : FileOf(NameStatus(c)[i]) = x}
Touches(c, x) == LinesNaming(c, x) # {}
StatusIn(c, x) ==
    StatusOf(NameStatus(c)[CHOOSE i \in LinesNaming(c, x) :
                               \A j \in LinesNaming(c, x) : i <= j])

\* The file entries of a list for path x.
EntriesFor(items, x) ==
    SelectSeq(items, LAMBDA i : i.itemType = "file" /\ i.file = x)

\* getChangedFiles has resolved after all its git processes succeeded on a
\* range that is not empty.
ChangedFilesDone ==
    /\ q.pc = "done" /\ q.cat = "Changed Files" /\ q.failed = "none"
    /\ q.hiAt # NULL /\ LoggedRange # {}

\* C6, amended (SpecQuery): getChangedFiles processes the outgoing commits in
\* the order of the log, newest first; every path touched by an outgoing
\* commit gets one entry, whose change kind is the one of the newest
\* outgoing commit that touches it, and commits processed later never
\* overwrite it. So when an outgoing commit adds f and a later outgoing
\* commit modifies f, f is reported as Modified.
C6_NewestCommitWins ==
    ChangedFilesDone =>
        \A x \in Paths :
            LET touching == {c \in LoggedRange : Touches(c, x)}
            IN  IF touching = {} THEN EntriesFor(q.items, x) = <<>>
                ELSE /\ Len(EntriesFor(q.items, x)) = 1
                     /\ EntriesFor(q.items, x)[1].status = StatusIn(Max(touching), x)

\* Two outgoing commits, the older adds f and the newer, its descendant,
\* modifies f.
AddedThenModified ==
    \E c1, c2 \in LoggedRange :
        /\ c1 # c2 /\ c1 \in Reach(c2)
        /\ Touches(c1, "f") /\ StatusIn(c1, "f") = "A"
        /\ Touches(c2, "f") /\ StatusIn(c2, "f") = "M"

\* f was added and then modified by outgoing commits and is reported as
\* Modified.
C6_Witness ==
    /\ ChangedFilesDone /\ AddedThenModified
    /\ EntriesFor(q.items, "f")[1].status = "M"

\* C6 as stated: when C1 (adds f) and then C2 (modifies f) are in the
\* outgoing range, f is reported as Added, not Modified.
C6_AddedThenModifiedIsAdded ==
    (ChangedFilesDone /\ AddedThenModified) =>
        /\ Len(EntriesFor(q.items, "f")) = 1
        /\ EntriesFor(q.items, "f")[1].status = "A"

\* A `git show` of getChangedFiles failed on a range of three commits.
ShowFailedOfThree ==
    /\ q.pc = "done" /\ q.cat = "Changed Files" /\ q.failed = "show"
    /\ Cardinality(LoggedRange) = 3

\* C7, amended (SpecQuery): when the file-status query of one outgoing commit
\* fails, getChangedFiles resolves to the one entry 'Error loading files:
\* ...' and to no file entry: the files collected from the commits processed
\* before the failure are dropped, and the commits after it are not queried.
C7_ShowFailureDropsFiles ==
    (q.pc = "done" /\ q.cat = "Changed Files" /\ q.failed = "show") =>
        /\ q.items = <<ErrorItem("Changed Files")>>
        /\ \A x \in Paths : EntriesFor(q.items, x) = <<>>

\* The query of the last of three commits failed after files of the first
\* two had been collected.
C7_Witness ==
    /\ ShowFailedOfThree
    /\ Len(q.todo) = 1 /\ Len(q.filesSet) > 0
    /\ q.items = <<ErrorItem("Changed Files")>>

\* C7 as stated: when the file-status query fails for one commit of a range
\* of three, the result holds the files of the other two commits and one
\* error entry.
C7_PartialFilesAndOneError ==
    ShowFailedOfThree =>
        LET failing == Head(q.todo)
            others == LoggedRange \ {failing}
        IN  /\ \A x \in Paths :
                   (\E c \in others : Touches(c, x)) => EntriesFor(q.items, x) # <<>>
            /\ Len(SelectSeq(q.items, LAMBDA i : i.itemType = Undefined)) = 1

\* getSyncedCommits has resolved after reading a Known marker, no process
\* having failed for a reason outside the repository.
SyncedCommitsDone ==
    /\ q.pc = "done" /\ q.cat = "Synced Commits"
    /\ q.marker # NULL /\ ~q.outside

\* C8, amended (SpecQuery): with a Known marker m that has a parent,
\* getSyncedCommits returns the commits of m^..m, newest first: m itself
\* and, when m is a merge, the commits its other parent brought in; the
\* commits before m on its first-parent line are not returned. When m is a
\* root commit the query fails and the list is the one entry 'Error loading
\* synced commits'.
C8_SyncedIsMarkerOnly ==
    SyncedCommitsDone =>
        LET hs == CommitHashes(q.items)
        IN  IF parents[q.marker] = <<>>
            THEN q.items = <<ErrorItem("Synced Commits")>>
            ELSE /\ SeqRange(hs) = Reach(q.marker) \ Reach(parents[q.marker][1])
                 /\ NewerFirst(hs)
                 /\ Len(q.items) = Len(hs)
                 /\ hs[1] = q.marker

\* The marker has a parent and the synced list is the marker alone.
C8_Witness ==
    /\ SyncedCommitsDone /\ parents[q.marker] # <<>>
    /\ CommitHashes(q.items) = <<q.marker>>

\* C8 as stated: with a Known marker m, getSyncedCommits returns m and every
\* commit before it.
C8_SyncedIsAllHistory ==
    SyncedCommitsDone => SeqRange(CommitHashes(q.items)) = Reach(q.marker)
\* C9 as stated (Spec): once a refresh has made the marker Known, root
\* commit included, getSyncedCommits returns a list of commit entries that
\* is not empty, and getOutgoingCommits lists no commit at or before the
\* marker.
C9_SyncedNotEmptyAfterRefresh ==
    /\ (q.pc = "done" /\ q.cat = "Synced Commits" /\ q.marker # NULL
        /\ ~q.outside) =>
           /\ Len(CommitHashes(q.items)) >= 1
           /\ Len(CommitHashes(q.items)) = Len(q.items)
    /\ (q.pc = "done" /\ q.cat = "Outgoing Commits" /\ q.marker # NULL
        /\ q.failed = "none") =>
           SeqRange(CommitHashes(q.items)) \cap Reach(q.marker) = {}

\* getOutgoingCommits has resolved on a branch with no origin/<branch>, no
\* process having failed for a reason outside the repository.
OutgoingDoneUntracked ==
    /\ q.pc = "done" /\ q.cat = "Outgoing Commits" /\ ~q.outside
    /\ remote[head] = NULL

\* C10, amended (SpecQuery): getOutgoingCommits never rejects. On a branch
\* with no origin/<branch>: with no origin remote it resolves to the entry
\* 'No remote origin found' and runs no comparison; with an origin remote
\* and an Unknown marker it builds the range origin/<branch>..<branch>,
\* whose log fails, and resolves to the entry 'Error loading commits: ...';
\* with a Known marker it does not fall back and lists the commits after
\* the marker.
C10_UntrackedBranch ==
    /\ q.cat = "Outgoing Commits" => q.pc # "rejected"
    /\ OutgoingDoneUntracked =>
          IF ~hasOrigin
          THEN /\ q.items = <<InfoItem(<<"No remote origin found">>)>>
               /\ q.lo = NoRev
          ELSE IF q.marker = NULL
          THEN /\ q.lo = OriginRev(head)
               /\ q.items = <<ErrorItem("Outgoing Commits")>>
          ELSE /\ q.lo = HashRev(q.marker)
               /\ SeqRange(CommitHashes(q.items))
                     = Reach(local[head]) \ Reach(q.marker)

\* No origin remote: the call resolved to 'No remote origin found' without
\* having built a range.
C10_Witness ==
    /\ OutgoingDoneUntracked /\ ~hasOrigin
    /\ q.items = <<InfoItem(<<"No remote origin found">>)>>
    /\ q.lo = NoRev

\* C10 as stated: on a branch with no remote tracking reference
\* getOutgoingCommits never rejects and compares with the remote tip.
C10_FallsBackToRemoteTip ==
    /\ q.cat = "Outgoing Commits" => q.pc # "rejected"
    /\ OutgoingDoneUntracked => q.lo = OriginRev(head)
\* The entries of a list that are informational: neither commit nor file.
IsInfo(item) == item.itemType = Undefined

\* C11 (SpecQuery): getChildren never rejects; for each of the four
\* categories, whatever the marker, when one of the call's git processes
\* fails the call resolves to a list of exactly one entry, and that entry is
\* informational.
C11_FailuresBecomeOneEntry ==
    /\ q.pc # "rejected"
    /\ (q.pc = "done" /\ q.failed # "none") =>
          /\ Len(q.items) = 1
          /\ IsInfo(q.items[1])

\* The log of getSyncedCommits failed, under a Known marker, and the call
\* resolved to its error entry.
C11_Witness ==
    /\ q.pc = "done" /\ q.cat = "Synced Commits" /\ q.failed = "log"
    /\ q.marker # NULL
    /\ q.items = <<ErrorItem("Synced Commits")>>

\* getOutgoingCommits or getChangedFiles has resolved after all its git
\* processes succeeded, on a range that holds no commit.
EmptyRangeDone ==
    /\ q.pc = "done" /\ q.cat \in {"Outgoing Commits", "Changed Files"}
    /\ q.failed = "none" /\ q.hiAt # NULL /\ LoggedRange = {}

\* C12 (SpecQuery): when the range is empty and no git process failed,
\* getOutgoingCommits and getChangedFiles resolve to the one entry 'No
\* outgoing commits', which has no kind and differs from the error entry of
\* every category; and a list that holds an error entry comes only from a
\* call one of whose git processes failed.
C12_EmptyRangeIsNotAnError ==
    /\ EmptyRangeDone =>
          /\ q.items = <<InfoItem(<<"No outgoing commits">>)>>
          /\ IsInfo(q.items[1])
          /\ \A cat \in Categories : q.items[1] # ErrorItem(cat)
    /\ (q.pc = "done" /\ \E cat \in Categories : ErrorItem(cat) \in SeqRange(q.items))
          => q.failed # "none"

\* getChangedFiles resolved to 'No outgoing commits' on an empty range.
C12_Witness ==
    /\ EmptyRangeDone /\ q.cat = "Changed Files"
    /\ q.items = <<InfoItem(<<"No outgoing commits">>)>>
\* getSyncedCommits or getSyncedFiles has resolved without having read a
\* Known marker.
SyncedDoneUnread ==
    /\ workspaceRoot /\ q.pc = "done"
    /\ q.cat \in {"Synced Commits", "Synced Files"}
    /\ q.marker = NULL

\* The 'No synced ...' entry of a category.
NoSyncedEntry(cat) ==
    IF cat = "Synced Commits" THEN InfoItem(<<"No synced commits">>)
    ELSE InfoItem(<<"No synced files">>)

\* C13, amended (Spec): getSyncedCommits and getSyncedFiles first await
\* getCurrentBranch and then read the marker. When the marker is Unknown
\* and getCurrentBranch succeeded, each resolves to its 'No synced ...'
\* entry; when getCurrentBranch failed (the folder is not a repository,
\* for one), each resolves to its error entry 'Error loading synced ...'.
\* In both cases no log or diff query is built or run: those run only
\* under a Known marker.
C13_UnknownMarkerSoftOrBranchError ==
    /\ SyncedDoneUnread =>
          /\ q.lo = NoRev /\ q.loAt = NULL /\ q.hiAt = NULL
          /\ IF q.failed = "none"
             THEN lastPushHash = NULL /\ q.items = <<NoSyncedEntry(q.cat)>>
             ELSE q.failed = "branch" /\ q.items = <<ErrorItem(q.cat)>>
    /\ (q.cat \in {"Synced Commits", "Synced Files"} /\ q.pc \in {"log", "diff"})
          => q.marker # NULL

\* getSyncedFiles resolved to 'No synced files' under an Unknown marker.
C13_Witness ==
    /\ SyncedDoneUnread /\ q.cat = "Synced Files" /\ q.failed = "none"
    /\ lastPushHash = NULL
    /\ q.items = <<NoSyncedEntry("Synced Files")>>

\* C13 as stated: when the marker is Unknown, getSyncedCommits and
\* getSyncedFiles return their 'No synced ...' entry, never an error entry,
\* and run no log or diff query.
C13_UnknownMarkerNeverError ==
    /\ (SyncedDoneUnread /\ lastPushHash = NULL) =>
          q.items = <<NoSyncedEntry(q.cat)>>
    /\ (q.cat \in {"Synced Commits", "Synced Files"} /\ q.pc \in {"log", "diff"})
          => q.marker # NULL
\* A second call of getChangedFiles has resolved, and neither call had a
\* process fail for a reason outside the repository.
SecondCallDone ==
    /\ q.pc = "done" /\ q.cat = "Changed Files"
    /\ q.prev.cat = "Changed Files"
    /\ ~q.outside /\ ~q.prev.outside

OutgoingListed(m) ==
    LET cmd == OutgoingCommitsCommand(m, head)
    IN  SeqRange(CommitHashes(
            CommitItems(GitLogOneline(TRUE, cmd.lo, cmd.hi).out,
                        "No outgoing commits")))

\* The paths of the file entries of a list.
PathsOf(items) == {items[i].file : i \in {k \in 1..Len(items) : items[k].itemType = "file"}}

\* getChangedFiles has resolved after all its git processes succeeded.
ChangedFilesAllOk ==
    /\ q.pc = "done" /\ q.cat = "Changed Files" /\ q.failed = "none"
    /\ q.hiAt # NULL

\* C15 (SpecQuery): when no process fails, the paths of the file entries of
\* getChangedFiles are exactly the paths touched by the commits that
\* getOutgoingCommits lists under the same marker on the same repository,
\* each path in one entry only, and the list holds nothing else unless
\* there is no such path.
C15_FilesOfOutgoingCommits ==
    ChangedFilesAllOk =>
        LET touched == {x \in Paths : \E c \in OutgoingListed(q.marker) : Touches(c, x)}
        IN  /\ PathsOf(q.items) = touched
            /\ \A x \in Paths : Len(EntriesFor(q.items, x)) <= 1
            /\ touched # {} => Len(q.items) = Cardinality(touched)
            /\ touched = {} => Len(q.items) = 1 /\ IsInfo(q.items[1])

\* Two outgoing commits touch f, and f and g are listed once each.
C15_Witness ==
    /\ ChangedFilesAllOk
    /\ Cardinality({c \in OutgoingListed(q.marker) : Touches(c, "f")}) >= 2
    /\ PathsOf(q.items) = {"f", "g"}
    /\ Len(q.items) = 2
\* A refresh awaited by updateLastPush has just returned and no other
\* refresh is in flight: the constructor's refresh completed before it.
LaterRefreshReturned(c) ==
    /\ c.pc = "returned" /\ c.fire
    /\ BagCardinality(upd) = 1

Completes(d) ==
    /\ d.pc \in {"revparse", "mergebase"}
    /\ \E ok \in BOOLEAN :
           upd' = (upd (-) One(d))
                  (+) One([d EXCEPT !.pc = "returned", !.ok = ok, !.was = lastPushHash])

\* C17 (Spec): the marker is always null or one whole commit hash; a step
\* changes it only when that step is the completion of a refresh; a refresh
\* that has returned is only taken away, with the marker left as it wrote
\* it, so each refresh writes once; and the step in which a query reads the
\* marker gets the value the marker has in that state and does not change it.
C17_OneWriteAtCompletion ==
    /\ [](lastPushHash \in {NULL} \cup Commits)
    /\ [][  /\ (lastPushHash' # lastPushHash => \E d \in Calls : Completes(d))
            /\ \A c \in Calls : c.pc = "returned" =>
                   (lastPushHash' = lastPushHash /\ upd' = upd (-) One(c))
            /\ (q'.pc \in {"log", "diff"} /\ q.pc \notin {"log", "diff"}) =>
                   (q'.marker = lastPushHash /\ lastPushHash' = lastPushHash)
       ]_vars

\* A query read the marker while a refresh was in flight and got the old
\* value; the refresh has since returned with another.
C17_Witness ==
    \E c \in Calls : /\ c.pc = "returned" /\ c.ok /\ lastPushHash # c.was
                     /\ q.pc = "log" /\ q.marker = c.was
\* The step starts a refresh, or moves refresh c from its rev-parse to its
\* merge-base, or takes away the returned refresh c.
Starts == \E fire \in BOOLEAN : upd' = upd (+) One(Call("revparse", "", fire))
Advances(c) ==
    /\ c.pc = "revparse"
    /\ \E b \in Branches : upd' = (upd (-) One(c)) (+) One(Call("mergebase", b, c.fire))
Ends(c) == c.pc = "returned" /\ upd' = upd (-) One(c)

\* C18 (Spec): a refresh in flight is never dropped: a step that changes the
\* set of calls starts one, advances one, completes one or takes a returned
\* one away, the others staying as they are. The completion of a refresh
\* writes its own result, Unknown on failure and a merge base for the branch
\* it read on success, whatever other refreshes are in flight and whatever
\* they wrote, so the marker is that of the refresh that completed last; and
\* the steps of a refresh change the marker, its own record and, for
\* updateLastPush, the tree-change event, nothing else.
C18_LastCompletionWins ==
    [][ /\ upd' # upd =>
              \/ Starts
              \/ \E c \in Calls : Advances(c) \/ Completes(c) \/ Ends(c)
        /\ \A d \in Calls : Completes(d) =>
              /\ \/ lastPushHash' = NULL
                 \/ /\ d.pc = "mergebase"
                    /\ remote[d.branch] # NULL /\ local[d.branch] # NULL
                    /\ lastPushHash' \in
                           BestCommonAncestors(remote[d.branch], local[d.branch])
              /\ UNCHANGED <<workspaceRoot, diff, repo, watch, q, treeEvents>>
        /\ \A c \in Calls : Advances(c) =>
              UNCHANGED <<workspaceRoot, diff, repo, lastPushHash, markerBranch, watch, q, treeEvents>>
        /\ \A c \in Calls : Ends(c) =>
              UNCHANGED <<workspaceRoot, diff, repo, lastPushHash, markerBranch, watch, q>>
    ]_vars

\* Two refreshes overlapped: one has returned with success and written a
\* marker other than the one it found, the other is still at its merge-base
\* query.
C18_Witness ==
    \E c, d \in Calls : /\ c.pc = "returned" /\ c.ok /\ lastPushHash # c.was
                        /\ d.pc = "mergebase"
\* C19 (Spec): every step that is not the completion of a refresh leaves the
\* marker as it is: the steps of the four queries, the firing of the
\* tree-change event by refresh() (the refresh command, the created and
\* deleted signals, the change of the active editor, a changed signal whose
\* reflog names no push or that has no workspace root), the arrival of a
\* changed signal and the end of its reflog check, the start of a refresh,
\* the selection of a tree item, and every change of the repository.
C19_OnlyRefreshWrites ==
    [][ \/ \E d \in Calls : Completes(d)
        \/ lastPushHash' = lastPushHash
      ]_vars
    /\ [][ (\/ q' # q
            \/ treeEvents' # treeEvents
            \/ watch' # watch
            \/ repo' # repo
            \/ BagCardinality(upd') > BagCardinality(upd)) => lastPushHash' = lastPushHash
         ]_vars

\* The marker is Known, the tree-change event has just been fired with no
\* refresh in flight, and a query of the synced files that read the marker
\* sits at its diff.
C19_Witness ==
    /\ lastPushHash # NULL /\ treeEvents = 1 /\ upd = EmptyBag
    /\ q.pc = "diff" /\ q.marker = lastPushHash
\* C20 (SpecLive): the created and the deleted signal fire the tree-change
\* event in their own step, and so does the changed signal without a
\* workspace root; with one, the changed signal starts its reflog check,
\* and from then on a state is reached in which the signal has been served
\* and the event is fired: by refresh() when the reflog names no push or
\* the check failed, by updateLastPush after its refresh returned when the
\* reflog names a push.
C20_SignalLeadsToEvent ==
    /\ [][(OnDidCreate \/ OnDidDelete) => treeEvents' = 1]_vars
    /\ [][OnDidChange => IF workspaceRoot THEN Pending' ELSE treeEvents' = 1]_vars
    /\ Pending ~> (~Pending /\ treeEvents = 1)

\* The reflog of a changed signal named a push and the refresh of
\* updateLastPush has returned: its event is about to be fired.
C20_Witness ==
    \E c \in Calls : c.fire /\ c.pc = "returned" /\ watch = 0 /\ treeEvents = 0
\* A query of one of the two file categories has resolved outside its catch.
FileQueryDone ==
    /\ q.pc = "done" /\ q.failed = "none"
    /\ q.cat \in {"Changed Files", "Synced Files"}

\* C21 as stated (SpecQuery): in getChangedFiles and in getSyncedFiles a
\* name-status line without a tab is skipped, so that every file entry
\* returned has a path.
C21_NoFileEntryWithoutPath ==
    FileQueryDone =>
        \A i \in 1..Len(q.items) :
            q.items[i].itemType = "file" => Truthy(q.items[i].file)
\* C22 as stated (SpecQuery): every item a category query returns is of one
\* kind: a commit item carries a commit id, a file item carries a path and
\* a change kind, an informational item carries no kind, id, path or
\* change kind.
C22_ItemsOfOneKind ==
    q.pc = "done" =>
        \A i \in 1..Len(q.items) :
            LET item == q.items[i]
            IN  CASE item.itemType = "commit" -> item.hash # NoHash
                  [] item.itemType = "file" -> Truthy(item.file) /\ Truthy(item.status)
                  [] item.itemType = Undefined ->
                         /\ item.hash = NoHash
                         /\ item.file = Undefined /\ item.status = Undefined
                  [] OTHER -> FALSE
\* C24 as stated (Spec): when getOutgoingCommits or getChangedFiles reads a
\* Known marker and makes it the lower bound of its range, the marker was
\* written by a refresh that had read the branch the query has read as the
\* checked-out one.
C24_MarkerOfCheckedOutBranch ==
    [][ (q.pc = "remote" /\ q'.pc = "log" /\ q'.marker # NULL) =>
            /\ q'.lo = HashRev(lastPushHash)
            /\ markerBranch = q.branch
      ]_vars
\* C25 (SpecAnswer): with a workspace root, a getChildren call on a
\* category is never rejected, every call that has started resolves, and
\* the list it resolves to has at least one entry, in which every entry is
\* a commit, a file or an informational entry.
C25_EveryCategoryAnswers ==
    /\ [](q.pc # "rejected")
    /\ [](q.pc = "done" => Len(q.items) >= 1)
    /\ (q.pc \notin {"idle", "done"}) ~> (q.pc = "done" /\ Len(q.items) >= 1)

\* getChangedFiles has resolved after more than one `git show`, to a list
\* of two file entries.
C25_Witness ==
    /\ q.pc = "done" /\ q.cat = "Changed Files" /\ q.failed = "none"
    /\ q.hiAt # NULL /\ Cardinality(Reach(q.hiAt) \ Reach(q.loAt)) > 1
    /\ Len(q.items) = 2 /\ q.items[2].itemType = "file"
\* The commits getSyncedCommits lists under marker m when no process fails:
\* none without a marker, else its command, its log and its parse.
SyncedListed(m) ==
    IF m = NULL THEN {}
    ELSE LET cmd == SyncedCommitsCommand(m)
         IN  SeqRange(CommitHashes(
                 CommitItems(GitLogOneline(TRUE, cmd.lo, cmd.hi).out,
                             "No synced commits")))

\* C26 (SpecQuery): on one repository and for the marker the call read, no
\* commit entry of getSyncedCommits is a commit getOutgoingCommits lists,
\* and no commit entry of getOutgoingCommits is one getSyncedCommits lists.
C26_OutgoingAndSyncedDisjoint ==
    /\ (q.pc = "done" /\ q.cat = "Synced Commits") =>
           SeqRange(CommitHashes(q.items)) \cap OutgoingListed(q.marker) = {}
    /\ (q.pc = "done" /\ q.cat = "Outgoing Commits") =>
           SeqRange(CommitHashes(q.items)) \cap SyncedListed(q.marker) = {}

\* getSyncedCommits has listed the marker, for which getOutgoingCommits
\* lists two commits.
C26_Witness ==
    /\ q.pc = "done" /\ q.cat = "Synced Commits"
    /\ CommitHashes(q.items) = <<q.marker>>
    /\ Cardinality(OutgoingListed(q.marker)) = 2
\* C27 (Spec): the step in which a refresh writes the marker fires no event.
\* When the returned refresh is taken away, the event is fired if
\* updateLastPush had started it and is not fired if the constructor had;
\* no other step both changes the set of refreshes and fires the event.
\* Without a workspace root the updateLastPush command starts no refresh,
\* leaves the marker alone and fires nothing.
C27_EventAfterWriteOnlyInUpdateLastPush ==
    [][ /\ \A d \in Calls : Completes(d) => treeEvents' = treeEvents
        /\ \A c \in Calls : Ends(c) =>
              /\ lastPushHash' = lastPushHash
              /\ treeEvents = 0
              /\ treeEvents' = (IF c.fire THEN 1 ELSE 0)
        /\ (upd' # upd /\ treeEvents' # treeEvents) =>
              \E c \in Calls : Ends(c) /\ c.fire
        /\ (UpdateLastPushCommand /\ ~workspaceRoot) =>
              UNCHANGED <<lastPushHash, upd, treeEvents>>
      ]_vars

\* The constructor's refresh has returned with a Known marker, and no event
\* is on its way.
C27_Witness ==
    \E c \in Calls : /\ c.pc = "returned" /\ ~c.fire /\ c.ok
                     /\ lastPushHash # NULL /\ treeEvents = 0
\* C28 as stated (Spec): in a workspace folder that is not a git repository,
\* getOutgoingCommits and getChangedFiles resolve to the one entry 'Not a
\* git repository'.
C28_NotARepositoryEntry ==
    (/\ q.pc = "done" /\ q.cat \in {"Outgoing Commits", "Changed Files"}
     /\ workspaceRoot /\ ~isRepo /\ ~q.outside) =>
        q.items = <<InfoItem(<<"Not a git repository">>)>>

\* C23: content retrieval for a path and a ref returns the file's text at
\* that ref, and empty content when the path does not exist at that ref.
\* Stated of every text the provider of the git-base scheme has handed to an
\* opened diff, its processes having run.
C23_TextAtRefOrEmpty ==
    \A i \in 1..Len(diff.contents) :
        LET got == diff.contents[i]
            at == BlobAt(Resolve(got.uri.ref), got.uri.path)
        IN  (got.uri.scheme = "git-base" /\ got.ran) =>
                got.text = IF at = NULL THEN EmptyText
                           ELSE BlobText(got.uri.path, at)

\* C29: the base commit showFileDiff uses for a file selected from 'Changed
\* Files' equals the lower bound getChangedFiles used to list that file,
\* for every marker and every repository.
C29_BaseIsListedLowerBound ==
    diff.baseCommit # NULL => diff.baseCommit = diff.listedFrom

\* C30: showFileDiff opens exactly one diff per selection, chosen by the
\* change kind: Deleted shows base against empty, Added shows empty against
\* the working-copy file, any other kind shows base against the working-copy
\* file, or against HEAD when the working-copy file is missing; when the
\* merge-base query fails, or an Added file is missing from the working
\* copy, an error message is shown and no diff is opened.
C30_OneDiffByChangeKind ==
    LET base == GitBaseUri(diff.file, HashRev(diff.baseCommit))
        work == FileUri(diff.file)
    IN  /\ Len(diff.opened) + Len(diff.errors) <= 1
        /\ diff.pc = "shown" <=> Len(diff.opened) = 1
        /\ diff.pc = "failed" <=> Len(diff.errors) = 1
        /\ diff.pc = "shown" =>
               /\ diff.baseCommit # NULL
               /\ diff.opened[1].left =
                      (IF diff.status = "A" THEN EmptyUri ELSE base)
               /\ diff.opened[1].right =
                      (CASE diff.status = "D" -> EmptyUri
                         [] diff.status = "A" -> work
                         [] OTHER -> IF diff.onDisk THEN work
                                     ELSE GitBaseUri(diff.file, HeadRev))
        /\ (diff.pc = "access" \/ diff.failedAt = "access") => diff.baseCommit # NULL
        /\ diff.failedAt = "mergebase" => diff.pc = "failed" /\ diff.baseCommit = NULL
        /\ (diff.status = "A" /\ ~diff.onDisk) =>
               diff.pc = "failed" /\ diff.failedAt = "access"
        /\ diff.failedAt = "access" => diff.status = "A" /\ ~diff.onDisk
        /\ (diff.pc = "failed") =>
               diff.failedAt \in {"revparse", "mergebase", "access"}

\* A modified file whose working copy is gone is shown as base against HEAD,
\* and both sides have been asked for.
C30_Witness ==
    /\ diff.pc = "shown" /\ diff.status = "M" /\ ~diff.onDisk
    /\ Len(diff.opened) = 1 /\ Len(diff.contents) = 2
    /\ diff.opened[1].right = GitBaseUri(diff.file, HeadRev)

====
